---- MODULE Spec2Model ----
(***************************************************************************)
(* Air-quality dashboard: the FastAPI backend (src/backend/main.py), the   *)
(* ingestion worker (src/worker/fetch_observations_and_insert.py) and the  *)
(* relational store they share (src/worker/init_db.py).                    *)
(*                                                                         *)
(* The specifications share the variables:                                 *)
(*   Spec        the API server: startup, /stations.geojson requests that  *)
(*               suspend at every await, the Redis cache with its expiry,   *)
(*               and committed ingestion transactions changing the store;  *)
(*   SpecIngest  the worker's main() loop over the station list and the    *)
(*               /latest/{station_id} query over the observation log;      *)
(*   SpecRisk    the /health-risk/{pm25_value} endpoint (a pure function); *)
(*   SpecHeat    the /heatmap endpoint over stations with coordinates;     *)
(*   SpecOutage  the API server while the database comes and goes;         *)
(*   SpecFetch   the worker's loop and the older root-level script's loop  *)
(*               against an upstream feed that may fail;                   *)
(*   SpecRetry   the worker's fetch_detail request by request, with the    *)
(*               session's retries;                                        *)
(*   SpecTxn     insert_observations statement by statement;               *)
(*   SpecSched   scheduler.py: the hourly job and its loop;                *)
(*   SpecBadge   the dashboard's AQI badge and category of a table row;    *)
(*   SpecSame    the API server while the store does not change;           *)
(*   SpecKeys    the API server asked for every bounding box.              *)
(***************************************************************************)
EXTENDS Integers, Sequences, FiniteSets, TLC

VARIABLES
    started,        \* the startup event has run
    DB_POOL,        \* main.py global: TRUE when the asyncpg pool exists
    REDIS_CLIENT,   \* main.py global: TRUE when the redis client object exists
    redisUp,        \* environment: the redis server answers
    now,            \* wall clock, seconds
    cache,          \* redis keyspace: key -> None or <<[val, exp]>>
    lastWrite,      \* history: key -> None or <<[val, at, forced]>>, the last SET
    pending,        \* history: key -> None or <<[val, at, taken]>>, the last forced
                    \* SET and whether a later non-forced request has started
    req,            \* request slot -> the coroutine's locals and position
    stations,       \* table stations: station_id -> [params, last_update]
    obs,            \* table observations: set of rows
    lastIns,        \* history: what the last insert_observations call did
    run,            \* worker main(): position in the station loop
    pm25_value,     \* /health-risk path parameter, hundredths of ug/m3
    risk,           \* /health-risk response
    dbUp,           \* environment: the database accepts connections
    heat,           \* /heatmap: the last call's arguments, query rows and response
    badge,          \* dashboard: the AQI badge and category of the last table row
    fetch,          \* worker fetch_detail: the call in progress and its attempts
    txn,            \* worker insert_observations: the open transaction
    sched           \* scheduler.py: the scheduler process

vars == <<started, DB_POOL, REDIS_CLIENT, redisUp, now, cache, lastWrite, pending, req,
          stations, obs, lastIns, run, pm25_value, risk, dbUp, heat,
          badge, fetch, txn, sched>>

apiVars    == <<started, DB_POOL, REDIS_CLIENT, redisUp, now, cache, lastWrite, pending, req>>
storeVars  == <<stations, obs, lastIns>>
riskVars   == <<pm25_value, risk>>
heatVars   == <<dbUp, heat>>
auxVars    == <<badge, fetch, txn, sched>>

(***************************************************************************)
(* Optional values: Python None / SQL NULL is the empty tuple.             *)
(***************************************************************************)
None == <<>>
Some(x) == <<x>>

(***************************************************************************)
(* Bounds of the model.                                                    *)
(***************************************************************************)
MaxTime == 59       \* the clock stops here
MaxTs == 2          \* observation timestamps 1..MaxTs
MaxRows == 3        \* rows in observations before ingestion is cut off
MaxDelta == 10      \* PM2.5 inputs within this many hundredths of a breakpoint
MaxGrid == 5        \* heatmap grid_size 1..MaxGrid

(***************************************************************************)
(* Program constants.                                                      *)
(***************************************************************************)
cache_ttl == 30     \* Settings.cache_ttl

Stations == {"s1", "s2"}
StationOrder == <<"s1", "s2">>       \* get_stations() result order
Uid(s) == IF s = "s1" THEN Some(1) ELSE Some(2)
\* stations.geom; the stations the heatmap is exercised on, in tenths of a
\* degree: A, B, C of the end-to-end scenario and D off their line
HeatStations == {"A", "B", "C", "D"}
Lon(s) == CASE s = "s1" -> 1 [] s = "s2" -> 3
            [] s = "A" -> 1068 [] s = "B" -> 1070 [] s = "C" -> 1065
            [] s = "D" -> 1065
Lat(s) == CASE s = "s1" -> 1 [] s = "s2" -> 3
            [] s = "A" -> 0 - 62 [] s = "B" -> 0 - 60 [] s = "C" -> 0 - 65
            [] s = "D" -> 0 - 60
Reqs == {1, 2}                       \* concurrent request slots

(***************************************************************************)
(* Query parameters of /stations.geojson: four Optional[float].            *)
(***************************************************************************)
NoBox == [lat_min |-> None, lon_min |-> None, lat_max |-> None, lon_max |-> None]
Box1  == [lat_min |-> Some(0), lon_min |-> Some(0), lat_max |-> Some(2), lon_max |-> Some(2)]
\* Box1 without its last bound: no WHERE clause
BoxPartial == [Box1 EXCEPT !.lon_max = None]
SameBoxes == {NoBox, Box1}
BBoxes == {NoBox, Box1, BoxPartial}
ReqBoxes == {NoBox}                  \* what the dashboard asks for

\* str() of an Optional[float] inside the f-string
FmtFloat(x) == IF x = None THEN "None" ELSE ToString(x[1]) \o ".0"

\* a variant of the key that leaves the longitudes out
CacheKeyLatOnly(b) ==
    "stations:" \o FmtFloat(b.lat_min) \o ":" \o FmtFloat(b.lat_max)

\* cache_key = f"stations:{lat_min}:{lon_min}:{lat_max}:{lon_max}"
CacheKey(b) ==
    "stations:" \o FmtFloat(b.lat_min) \o ":" \o FmtFloat(b.lon_min) \o ":"
                \o FmtFloat(b.lat_max) \o ":" \o FmtFloat(b.lon_max)

Keys == {CacheKey(b) : b \in BBoxes}

\* json.dumps / json.loads of a JSON-serialisable value
Dumps(x) == <<"json", x>>
Loads(s) == s[2]

\* row["last_update"].isoformat() if row["last_update"] else None
IsoFormat(t) == IF t = None THEN None ELSE <<"iso", t[1]>>

\* station_row_to_feature(row)
station_row_to_feature(s) ==
    [type |-> "Feature",
     properties |-> [station_id |-> s,
                     name |-> "name-" \o s,
                     city |-> "city-" \o s,
                     params |-> stations[s].params,
                     last_update |-> IsoFormat(stations[s].last_update)],
     geometry |-> <<Lon(s), Lat(s)>>]

\* the SELECT of stations_geojson: WHERE only when all four bounds are given
StationRows(b) ==
    IF None \notin {b.lat_min, b.lon_min, b.lat_max, b.lon_max}
    THEN {s \in Stations : /\ b.lon_min[1] <= Lon(s) /\ Lon(s) <= b.lon_max[1]
                           /\ b.lat_min[1] <= Lat(s) /\ Lat(s) <= b.lat_max[1]}
    ELSE Stations

GeoJson(b) ==
    [type |-> "FeatureCollection",
     features |-> {station_row_to_feature(s) : s \in StationRows(b)}]

(***************************************************************************)
(* The store: tables stations and observations (init_db.create_tables).    *)
(* A row of observations is [id, station_id, ts, param, value, unit];      *)
(* ts and unit are nullable.  UNIQUE(station_id, ts, param) follows SQL:   *)
(* two rows conflict only when all three columns are non-null and equal,   *)
(* so rows with a NULL ts never conflict.  The code never reads the SERIAL *)
(* id; here it only tells apart rows equal in every other column, and      *)
(* counts the rows of one (station_id, ts, param).                         *)
(***************************************************************************)
ParamOrder == <<"pm25", "pm10">>     \* key order of the upstream iaqi object
IaqiParams == {ParamOrder[i] : i \in 1..Len(ParamOrder)}
Values == {10, 40}
Offsets == {7, 8}                    \* UTC offsets of time.iso

Obj(x, ff) == [v |-> x, from_forecast |-> ff]
IaqiOver(P, V) == UNION {[D -> {Obj(x, FALSE) : x \in V}] : D \in SUBSET P}

\* time.iso "2025-11-20T19:00:00+08:00" into a TIMESTAMP column: the
\* zone designator is dropped, the local time is stored
TsOfIso(iso) == IF iso = None THEN None ELSE Some(iso[1].local)

Conflicts(o, sid, ts, param) ==
    {r \in o : r.station_id = sid /\ r.param = param /\ ts # None /\ r.ts = ts}

NewRow(o, sid, ts, param, value, unit) ==
    [id |-> 1 + Cardinality({r \in o : /\ r.station_id = sid
                                       /\ r.ts = ts
                                       /\ r.param = param}),
     station_id |-> sid, ts |-> ts, param |-> param, value |-> value, unit |-> unit]

\* variants of the conflict clause: DO UPDATE SET value = EXCLUDED.value, and
\* DO UPDATE SET value = observations.value + EXCLUDED.value
InsertRowUpsert(o, sid, ts, param, value, unit) ==
    IF Conflicts(o, sid, ts, param) # {}
    THEN {IF r \in Conflicts(o, sid, ts, param) THEN [r EXCEPT !.value = value] ELSE r :
             r \in o}
    ELSE o \cup {NewRow(o, sid, ts, param, value, unit)}

InsertRowAccumulate(o, sid, ts, param, value, unit) ==
    IF Conflicts(o, sid, ts, param) # {}
    THEN {IF r \in Conflicts(o, sid, ts, param) THEN [r EXCEPT !.value = @ + value] ELSE r :
             r \in o}
    ELSE o \cup {NewRow(o, sid, ts, param, value, unit)}

\* INSERT INTO observations ... ON CONFLICT (station_id, ts, param) DO NOTHING
InsertRow(o, sid, ts, param, value, unit) ==
    IF Conflicts(o, sid, ts, param) # {}
    THEN o
    ELSE o \cup {NewRow(o, sid, ts, param, value, unit)}

RECURSIVE InsertAll(_, _, _, _)
InsertAll(o, sid, ts, items) ==
    IF items = <<>> THEN o
    ELSE InsertAll(InsertRow(o, sid, ts, items[1].param, items[1].value, items[1].unit),
                   sid, ts, Tail(items))

RECURSIVE IaqiItems(_, _)
IaqiItems(iaqi, order) ==
    IF order = <<>> THEN <<>>
    ELSE (IF order[1] \in DOMAIN iaqi
          THEN <<[param |-> order[1], value |-> iaqi[order[1]].v, unit |-> None]>>
          ELSE <<>>) \o IaqiItems(iaqi, Tail(order))

\* raw.get("aqi"): absent, a number, or text such as "-" on which float() raises
AqiAbsent == [k |-> "absent", n |-> 0]
AqiText   == [k |-> "text", n |-> 0]
AqiNum(n) == [k |-> "num", n |-> n]

\* the rows insert_observations sends, in statement order
BatchItems(iaqi, raw) ==
    IaqiItems(iaqi, ParamOrder)
    \o (IF raw.aqi.k = "num"
        THEN <<[param |-> "aqi", value |-> raw.aqi.n, unit |-> None]>> ELSE <<>>)
    \o (IF raw.dominentpol # None
        THEN <<[param |-> "dominentpol", value |-> 1, unit |-> raw.dominentpol]>>
        ELSE <<>>)

\* insert_observations(station_id, ts, iaqi, raw): one transaction
insert_observations(sid, ts, iaqi, raw) ==
    LET items == BatchItems(iaqi, raw)
        o2 == InsertAll(obs, sid, ts, items)
    IN /\ obs' = o2
       /\ stations' = [stations EXCEPT ![sid] =
                          [params |-> Some(iaqi), last_update |-> ts]]
       /\ lastIns' = [sent |-> Len(items),
                      added |-> Cardinality(o2) - Cardinality(obs),
                      clash |-> \E i \in 1..Len(items) :
                                  \E r \in Conflicts(obs, sid, ts, items[i].param) :
                                      r.value # items[i].value]

\* enrich_with_forecast(data, iaqi): fill missing pollutants from today's
\* forecast entry; forecast maps a pollutant to today's avg when it has one
enrich_with_forecast(data, iaqi) ==
    IF DOMAIN data.forecast = {} THEN iaqi
    ELSE IF data.time.iso = None /\ ~data.time.s THEN iaqi
    ELSE [p \in DOMAIN iaqi \cup DOMAIN data.forecast |->
             IF p \in DOMAIN iaqi THEN iaqi[p] ELSE Obj(data.forecast[p], TRUE)]

(***************************************************************************)
(* The API server.                                                         *)
(***************************************************************************)
IdleReq == [pc |-> "idle", bbox |-> NoBox, force |-> FALSE, status |-> 0,
            media |-> "", body |-> None, data |-> None,
            reads |-> 0, computes |-> 0, wrote |-> FALSE, next |-> FALSE]

\* a redis key is readable until its expiry time
Live(e) == e # None /\ now < e[1].exp

\* REDIS_CLIENT.get(cache_key)
RedisGet(k) == IF Live(cache[k]) THEN Some(cache[k][1].val) ELSE None

\* REDIS_CLIENT.set(cache_key, value, ex=settings.cache_ttl)
RedisSetNoExpiry(value, t) == Some([val |-> value, exp |-> MaxTime + cache_ttl + 1])
RedisSetExpired(value, t) == Some([val |-> value, exp |-> t])
RedisSet(value, t) == Some([val |-> value, exp |-> t + cache_ttl])

\* if REDIS_CLIENT and not force_refresh
ReadsCache(force) == REDIS_CLIENT /\ ~force

\* history: a SET of a key, while it is younger than cache_ttl
Recent(w, t) == IF w # None /\ t - w[1].at < cache_ttl THEN w ELSE None

\* startup(): the pool, then the redis client when redis_url is set and
\* the ping succeeds
Startup(dbOk, redisUrl) ==
    /\ ~started
    /\ started' = TRUE
    /\ DB_POOL' = dbOk
    /\ REDIS_CLIENT' = (redisUrl /\ redisUp)
    /\ UNCHANGED <<redisUp, now, cache, lastWrite, pending, req>>
    /\ UNCHANGED <<storeVars, run, riskVars, heatVars, auxVars>>

\* the redis server goes away or comes back
RedisFail ==
    /\ redisUp
    /\ redisUp' = FALSE
    /\ UNCHANGED <<started, DB_POOL, REDIS_CLIENT, now, cache, lastWrite, pending, req>>
    /\ UNCHANGED <<storeVars, run, riskVars, heatVars, auxVars>>

RedisRecover ==
    /\ ~redisUp
    /\ redisUp' = TRUE
    /\ UNCHANGED <<started, DB_POOL, REDIS_CLIENT, now, cache, lastWrite, pending, req>>
    /\ UNCHANGED <<storeVars, run, riskVars, heatVars, auxVars>>

\* time passes; redis drops the keys that have expired
Tick(d) ==
    /\ now + d <= MaxTime
    /\ now' = now + d
    /\ cache' = [k \in Keys |->
                    IF cache[k] # None /\ now + d < cache[k][1].exp
                    THEN cache[k] ELSE None]
    /\ lastWrite' = [k \in Keys |-> Recent(lastWrite[k], now + d)]
    /\ pending' = [k \in Keys |-> Recent(pending[k], now + d)]
    /\ UNCHANGED <<started, DB_POOL, REDIS_CLIENT, redisUp, req>>
    /\ UNCHANGED <<storeVars, run, riskVars, heatVars, auxVars>>

\* stations_geojson up to its first await
StartRequest(r, b, force) ==
    /\ started
    /\ req[r].pc \in {"idle", "done"}
    /\ LET k == CacheKey(b)
           isNext == ~force /\ pending[k] # None /\ ~pending[k][1].taken
           base == [IdleReq EXCEPT !.bbox = b, !.force = force, !.next = isNext]
       IN /\ req' = [req EXCEPT ![r] =
                        IF ~DB_POOL
                        THEN [base EXCEPT !.pc = "done", !.status = 503]
                        ELSE IF ReadsCache(force)
                        THEN [base EXCEPT !.pc = "get"]
                        ELSE [base EXCEPT !.pc = "fetch"]]
          /\ pending' = IF isNext
                        THEN [pending EXCEPT ![k] = Some([@[1] EXCEPT !.taken = TRUE])]
                        ELSE pending
    /\ UNCHANGED <<started, DB_POOL, REDIS_CLIENT, redisUp, now, cache, lastWrite>>
    /\ UNCHANGED <<storeVars, run, riskVars, heatVars, auxVars>>

\* cached_data = await REDIS_CLIENT.get(cache_key); return on a hit
CacheGet(r) ==
    /\ req[r].pc = "get"
    /\ LET cached_data == RedisGet(CacheKey(req[r].bbox))
           got == [req[r] EXCEPT !.reads = @ + 1]
       IN req' = [req EXCEPT ![r] =
                     IF ~redisUp
                     THEN [got EXCEPT !.pc = "done", !.status = 500]
                     ELSE IF cached_data # None
                     THEN [got EXCEPT !.pc = "done", !.status = 200,
                                      !.media = "application/json",
                                      !.body = Some(Loads(cached_data[1]))]
                     ELSE [got EXCEPT !.pc = "fetch"]]
    /\ UNCHANGED <<started, DB_POOL, REDIS_CLIENT, redisUp, now, cache, lastWrite, pending>>
    /\ UNCHANGED <<storeVars, run, riskVars, heatVars, auxVars>>

\* async with DB_POOL.acquire(): rows = await conn.fetch(query, *args);
\* features; then up to the SET. A failed connection raises out of the handler.
DbFetch(r) ==
    /\ req[r].pc = "fetch"
    /\ LET geojson_data == GeoJson(req[r].bbox)
           got == [req[r] EXCEPT !.computes = @ + 1]
       IN req' = [req EXCEPT ![r] =
                     IF ~dbUp
                     THEN [req[r] EXCEPT !.pc = "done", !.status = 500]
                     ELSE IF REDIS_CLIENT
                     THEN [got EXCEPT !.pc = "set", !.data = Some(geojson_data)]
                     ELSE [got EXCEPT !.pc = "done", !.status = 200,
                                      !.media = "application/geo+json",
                                      !.body = Some(geojson_data)]]
    /\ UNCHANGED <<started, DB_POOL, REDIS_CLIENT, redisUp, now, cache, lastWrite, pending>>
    /\ UNCHANGED <<storeVars, run, riskVars, heatVars, auxVars>>

\* await REDIS_CLIENT.set(...); return Response(...)
CacheSet(r) ==
    /\ req[r].pc = "set"
    /\ LET k == CacheKey(req[r].bbox)
           value == Dumps(req[r].data[1])
       IN IF ~redisUp
          THEN /\ req' = [req EXCEPT ![r] =
                            [@ EXCEPT !.pc = "done", !.status = 500, !.data = None]]
               /\ UNCHANGED <<cache, lastWrite, pending>>
          ELSE /\ cache' = [cache EXCEPT ![k] = RedisSet(value, now)]
               /\ lastWrite' = [lastWrite EXCEPT ![k] =
                                   Some([val |-> value, at |-> now,
                                         forced |-> req[r].force])]
               /\ pending' = [pending EXCEPT ![k] =
                                 IF req[r].force
                                 THEN Some([val |-> value, at |-> now, taken |-> FALSE])
                                 ELSE pending[k]]
               /\ req' = [q \in Reqs |->
                            IF q = r
                            THEN [req[r] EXCEPT !.pc = "done", !.status = 200,
                                      !.wrote = TRUE,
                                      !.media = "application/geo+json",
                                      !.body = req[r].data, !.data = None]
                            ELSE IF req[r].force /\ CacheKey(req[q].bbox) = k
                            THEN [req[q] EXCEPT !.next = FALSE]
                            ELSE req[q]]
    /\ UNCHANGED <<started, DB_POOL, REDIS_CLIENT, redisUp, now>>
    /\ UNCHANGED <<storeVars, run, riskVars, heatVars, auxVars>>

\* a committed worker transaction, as the API server sees it
StoreCommit(sid, iso, iaqi) ==
    /\ insert_observations(sid, TsOfIso(iso), iaqi,
                           [aqi |-> AqiAbsent, dominentpol |-> None])
    /\ Cardinality(obs') <= MaxRows
    /\ UNCHANGED <<apiVars, run, riskVars, heatVars, auxVars>>

(***************************************************************************)
(* The ingestion worker: main() of fetch_observations_and_insert.py.       *)
(***************************************************************************)
\* main() up to the loop: stations = get_stations()
MainStart ==
    /\ run.pc = "idle"
    /\ run' = [pc |-> "loop", i |-> 1]
    /\ UNCHANGED <<apiVars, storeVars, riskVars, heatVars, auxVars>>

\* one iteration of the loop; data is what fetch_detail returned
StationBody(sid, data) ==
    /\ run.pc = "loop"
    /\ run.i <= Len(StationOrder)
    /\ sid = StationOrder[run.i]
    /\ run' = [run EXCEPT !.i = @ + 1]
    /\ LET station_id == sid
       IN IF Uid(station_id) = None \/ data = None
          THEN UNCHANGED storeVars
          ELSE IF DOMAIN data[1].iaqi = {}
          THEN UNCHANGED storeVars
          ELSE insert_observations(station_id, TsOfIso(data[1].time.iso),
                                   enrich_with_forecast(data[1], data[1].iaqi),
                                   data[1])
    /\ Cardinality(obs') <= MaxRows

MainStation(sid, data) ==
    /\ StationBody(sid, data)
    /\ UNCHANGED <<apiVars, riskVars, heatVars, auxVars>>

\* the loop is exhausted, main() returns
MainEnd ==
    /\ run.pc = "loop"
    /\ run.i > Len(StationOrder)
    /\ run' = [pc |-> "idle", i |-> 0]
    /\ UNCHANGED <<apiVars, storeVars, riskVars, heatVars, auxVars>>

(***************************************************************************)
(* The upstream feed and fetch_detail.  An answer is a timeout (or any     *)
(* other exception of the HTTP call, after the session's retries), a body  *)
(* whose status is not "ok", or an "ok" body with its data.                *)
(***************************************************************************)
Timeout == [k |-> "timeout"]
NotOk == [k |-> "error"]
Ok(d) == [k |-> "ok", data |-> d]

\* worker fetch_detail(uid, lat, lon): the uid feed, then the geo feed, each
\* in a try/except that prints the error; None when neither gave data
fetch_detail(uidAns, geoAns) ==
    IF uidAns.k = "ok" THEN Some(uidAns.data)
    ELSE IF geoAns.k = "ok" THEN Some(geoAns.data)
    ELSE None

\* fetch_detail of src/fetch_observations_and_insert.py: the same two calls
\* without try/except, so requests.get's exception leaves the function
legacy_fetch_detail(uidAns, geoAns) ==
    IF uidAns.k = "timeout" THEN [raised |-> TRUE, data |-> None]
    ELSE IF uidAns.k = "ok" THEN [raised |-> FALSE, data |-> Some(uidAns.data)]
    ELSE IF geoAns.k = "timeout" THEN [raised |-> TRUE, data |-> None]
    ELSE IF geoAns.k = "ok" THEN [raised |-> FALSE, data |-> Some(geoAns.data)]
    ELSE [raised |-> FALSE, data |-> None]

\* one iteration of the worker's loop, from the feed's answers
FetchStation(sid, uidAns, geoAns) == MainStation(sid, fetch_detail(uidAns, geoAns))

(***************************************************************************)
(* main() of src/fetch_observations_and_insert.py, the script the worker   *)
(* grew out of: plain INSERTs, no enrichment, nothing caught.              *)
(***************************************************************************)
LegacyStart ==
    /\ run.pc = "idle"
    /\ run' = [pc |-> "legacy", i |-> 1]
    /\ UNCHANGED <<apiVars, storeVars, riskVars, heatVars, auxVars>>

\* an exception leaves main(): the run is over, later stations are not visited
Raised(error) == [pc |-> "raised", i |-> run.i, error |-> error]

LegacyStation(sid, uidAns, geoAns) ==
    /\ run.pc = "legacy"
    /\ run.i <= Len(StationOrder)
    /\ sid = StationOrder[run.i]
    /\ LET got == legacy_fetch_detail(uidAns, geoAns)
           data == got.data
           Skip == run' = [run EXCEPT !.i = @ + 1] /\ UNCHANGED storeVars
       IN IF Uid(sid) = None THEN Skip
          ELSE IF got.raised THEN run' = Raised("Timeout") /\ UNCHANGED storeVars
          ELSE IF data = None THEN Skip
          ELSE IF DOMAIN data[1].iaqi = {} THEN Skip
          ELSE LET ts == TsOfIso(data[1].time.iso)
                   items == IaqiItems(data[1].iaqi, ParamOrder)
               IN IF \E k \in 1..Len(items) : Conflicts(obs, sid, ts, items[k].param) # {}
                  THEN run' = Raised("UniqueViolation") /\ UNCHANGED storeVars
                  ELSE /\ run' = [run EXCEPT !.i = @ + 1]
                       /\ obs' = InsertAll(obs, sid, ts, items)
                       /\ lastIns' = [sent |-> Len(items), added |-> Len(items),
                                      clash |-> FALSE]
                       /\ UNCHANGED stations
    /\ Cardinality(obs') <= MaxRows
    /\ UNCHANGED <<apiVars, riskVars, heatVars, auxVars>>

LegacyEnd ==
    /\ run.pc = "legacy"
    /\ run.i > Len(StationOrder)
    /\ run' = [pc |-> "idle", i |-> 0]
    /\ UNCHANGED <<apiVars, storeVars, riskVars, heatVars, auxVars>>

(***************************************************************************)
(* GET /latest/{station_id}                                                *)
(***************************************************************************)
\* SELECT DISTINCT ON (param) param, value, ts ... ORDER BY param, ts DESC
\* (NULL sorts first under DESC), then the dict with r["ts"].isoformat()
LatestFor(o, sid) ==
    LET rows == {r \in o : r.station_id = sid}
        params == {r.param : r \in rows}
        HasNull(p) == \E r \in rows : r.param = p /\ r.ts = None
        Top(p) == CHOOSE r \in rows :
                     /\ r.param = p
                     /\ \A q \in rows : q.param = p => q.ts[1] <= r.ts[1]
    IN IF rows = {} THEN [status |-> 404, latest |-> <<>>]
       ELSE IF \E p \in params : HasNull(p) THEN [status |-> 500, latest |-> <<>>]
       ELSE [status |-> 200,
             latest |-> [p \in params |->
                            [value |-> Top(p).value, ts |-> IsoFormat(Top(p).ts)]]]

latest_for_station(sid) ==
    IF ~DB_POOL THEN [status |-> 503, latest |-> <<>>]
    ELSE IF ~dbUp THEN [status |-> 500, latest |-> <<>>]
    ELSE LatestFor(obs, sid)

(***************************************************************************)
(* GET /timeseries/{station_id}/{param}, start and end absent and the      *)
(* limit above the number of rows.                                         *)
(***************************************************************************)
\* ORDER BY ts ASC, then [{"ts": r["ts"].isoformat(), "value": r["value"]}]
RECURSIVE Ascending(_)
Ascending(R) ==
    IF R = {} THEN <<>>
    ELSE LET m == CHOOSE r \in R : \A q \in R : r.ts[1] <= q.ts[1]
         IN <<[ts |-> IsoFormat(m.ts), value |-> m.value]>> \o Ascending(R \ {m})

timeseries(sid, param) ==
    LET rows == {r \in obs : r.station_id = sid /\ r.param = param}
    IN IF ~DB_POOL THEN [status |-> 503, series |-> <<>>]
       ELSE IF ~dbUp THEN [status |-> 500, series |-> <<>>]
       ELSE IF \E r \in rows : r.ts = None THEN [status |-> 500, series |-> <<>>]
       ELSE [status |-> 200, series |-> Ascending(rows)]

(***************************************************************************)
(* The database server goes away or comes back.                            *)
(***************************************************************************)
DbFail ==
    /\ dbUp
    /\ dbUp' = FALSE
    /\ UNCHANGED <<apiVars, storeVars, run, riskVars, heat, auxVars>>

DbRecover ==
    /\ ~dbUp
    /\ dbUp' = TRUE
    /\ UNCHANGED <<apiVars, storeVars, run, riskVars, heat, auxVars>>

(***************************************************************************)
(* GET /health-risk/{pm25_value}; concentrations in hundredths of ug/m3.   *)
(***************************************************************************)
Bp12 == 1200
Bp35 == 3540
Bp55 == 5540
Bp150 == 15040
Bp250 == 25040
Breakpoints == {Bp12, Bp35, Bp55, Bp150, Bp250}

\* variants: exclusive upper bounds, and two tier labels exchanged
health_risk_exclusive(v) ==
    IF v < Bp12 THEN [pm25 |-> v, level |-> "Good", color |-> "#00e400"]
    ELSE IF v < Bp35 THEN [pm25 |-> v, level |-> "Moderate", color |-> "#ffff00"]
    ELSE IF v < Bp55
    THEN [pm25 |-> v, level |-> "Unhealthy for Sensitive Groups", color |-> "#ff7e00"]
    ELSE IF v < Bp150 THEN [pm25 |-> v, level |-> "Unhealthy", color |-> "#ff0000"]
    ELSE IF v < Bp250 THEN [pm25 |-> v, level |-> "Very Unhealthy", color |-> "#8f3f97"]
    ELSE [pm25 |-> v, level |-> "Hazardous", color |-> "#7e0023"]

health_risk_swapped(v) ==
    IF v <= Bp12 THEN [pm25 |-> v, level |-> "Good", color |-> "#00e400"]
    ELSE IF v <= Bp35 THEN [pm25 |-> v, level |-> "Moderate", color |-> "#ffff00"]
    ELSE IF v <= Bp55
    THEN [pm25 |-> v, level |-> "Unhealthy for Sensitive Groups", color |-> "#ff7e00"]
    ELSE IF v <= Bp150 THEN [pm25 |-> v, level |-> "Very Unhealthy", color |-> "#8f3f97"]
    ELSE IF v <= Bp250 THEN [pm25 |-> v, level |-> "Unhealthy", color |-> "#ff0000"]
    ELSE [pm25 |-> v, level |-> "Hazardous", color |-> "#7e0023"]

\* variant: the AQI index scale (50, 100, 150, 200, 300) applied to a concentration
health_risk_index_scale(v) ==
    IF v <= 5000 THEN [pm25 |-> v, level |-> "Good", color |-> "#00e400"]
    ELSE IF v <= 10000 THEN [pm25 |-> v, level |-> "Moderate", color |-> "#ffff00"]
    ELSE IF v <= 15000
    THEN [pm25 |-> v, level |-> "Unhealthy for Sensitive Groups", color |-> "#ff7e00"]
    ELSE IF v <= 20000 THEN [pm25 |-> v, level |-> "Unhealthy", color |-> "#ff0000"]
    ELSE IF v <= 30000 THEN [pm25 |-> v, level |-> "Very Unhealthy", color |-> "#8f3f97"]
    ELSE [pm25 |-> v, level |-> "Hazardous", color |-> "#7e0023"]

health_risk(v) ==
    IF v <= Bp12 THEN [pm25 |-> v, level |-> "Good", color |-> "#00e400"]
    ELSE IF v <= Bp35 THEN [pm25 |-> v, level |-> "Moderate", color |-> "#ffff00"]
    ELSE IF v <= Bp55
    THEN [pm25 |-> v, level |-> "Unhealthy for Sensitive Groups", color |-> "#ff7e00"]
    ELSE IF v <= Bp150 THEN [pm25 |-> v, level |-> "Unhealthy", color |-> "#ff0000"]
    ELSE IF v <= Bp250 THEN [pm25 |-> v, level |-> "Very Unhealthy", color |-> "#8f3f97"]
    ELSE [pm25 |-> v, level |-> "Hazardous", color |-> "#7e0023"]

RiskInputs ==
    {0, 1000, 4000, 8000, 30000}
    \cup {b + d : b \in Breakpoints, d \in (0 - MaxDelta)..MaxDelta}

HealthRisk(v) ==
    /\ pm25_value' = v
    /\ risk' = health_risk(v)
    /\ UNCHANGED <<apiVars, storeVars, run, heatVars, auxVars>>

(***************************************************************************)
(* GET /heatmap.  Coordinates are in tenths of a degree; a grid coordinate *)
(* is a numerator over the common denominator AxisDen(grid_size), a value  *)
(* of the interpolated surface a fraction [n, d] with d > 0.               *)
(***************************************************************************)
pad == 5            \* pad = 0.5 degree

\* the newest row first: ORDER BY ... ts DESC, NULL before every timestamp
Newest(R) ==
    CHOOSE r \in R :
        IF \E q \in R : q.ts = None THEN r.ts = None
        ELSE \A q \in R : q.ts[1] <= r.ts[1]

\* SELECT DISTINCT ON (s.station_id) s.station_id, lon, lat, o.value
\* FROM stations s JOIN observations o ... WHERE o.param = $1
HeatRows(o, param) ==
    LET Of(sid) == {r \in o : r.station_id = sid /\ r.param = param}
    IN {[station_id |-> sid, lon |-> Lon(sid), lat |-> Lat(sid),
         value |-> Newest(Of(sid)).value] :
            sid \in {x \in DOMAIN stations : Of(x) # {}}}

\* twice the signed area of the triangle a, b, c of [lon, lat] points
Cross(a, b, c) ==
    (b.lon - a.lon) * (c.lat - a.lat) - (b.lat - a.lat) * (c.lon - a.lon)

Collinear(S) == \A a, b, c \in S : Cross(a, b, c) = 0

\* d lies strictly inside the circle through a, b, c
InCircle(a, b, c, d) ==
    LET ax == a.lon - d.lon  ay == a.lat - d.lat
        bx == b.lon - d.lon  by == b.lat - d.lat
        cx == c.lon - d.lon  cy == c.lat - d.lat
        det == (ax * ax + ay * ay) * (bx * cy - cx * by)
               - (bx * bx + by * by) * (ax * cy - cx * ay)
               + (cx * cx + cy * cy) * (ax * by - bx * ay)
    IN IF Cross(a, b, c) > 0 THEN det > 0 ELSE det < 0

\* scipy.spatial.Delaunay(points): the triangles whose circumcircle holds
\* no other point
Delaunay(S) ==
    {T \in SUBSET S :
        /\ Cardinality(T) = 3
        /\ ~Collinear(T)
        /\ \E a, b, c \in T :
              /\ T = {a, b, c}
              /\ \A d \in S \ T : ~InCircle(a, b, c, d)}

\* np.linspace(start, stop, num)[i]: start for num = 1, else
\* start + i * (stop - start) / (num - 1), as a numerator over AxisDen(num);
\* the variant runs from stop down to start
AxisDen(num) == IF num = 1 THEN 1 ELSE num - 1
LinspaceReversed(start, stop, num, i) == stop * AxisDen(num) + i * (start - stop)
Linspace(start, stop, num, i) == start * AxisDen(num) + i * (stop - start)

\* variants of the interpolator: triangle edges excluded, and cells outside
\* the hull filled with 0
InterpolateStrict(tri, p, den) ==
    LET Sc(a) == [lon |-> a.lon * den, lat |-> a.lat * den]
        W(T, a) == LET bc == T \ {a}
                       b == CHOOSE x \in bc : TRUE
                       c == CHOOSE x \in bc : x # b
                   IN Cross(p, Sc(b), Sc(c)) * Cross(Sc(a), Sc(b), Sc(c))
        Found == {T \in tri : \A a \in T : W(T, a) > 0}
    IN IF Found = {} THEN None
       ELSE LET T == CHOOSE T \in Found : TRUE
                a == CHOOSE x \in T : TRUE
                b == CHOOSE x \in T \ {a} : TRUE
                c == CHOOSE x \in T \ {a, b} : TRUE
            IN Some([n |-> W(T, a) * a.value + W(T, b) * b.value + W(T, c) * c.value,
                     d |-> W(T, a) + W(T, b) + W(T, c)])

InterpolateFilled(tri, p, den) == Some([n |-> 0, d |-> 1])

\* LinearNDInterpolator over the triangulation tri, at point p (coordinates
\* over denominator den): the barycentric mean over the triangle holding p,
\* edges included (find_simplex accepts them within its eps); None is NaN
Interpolate(tri, p, den) ==
    LET Sc(a) == [lon |-> a.lon * den, lat |-> a.lat * den]
        W(T, a) == LET bc == T \ {a}
                       b == CHOOSE x \in bc : TRUE
                       c == CHOOSE x \in bc : x # b
                   IN Cross(p, Sc(b), Sc(c)) * Cross(Sc(a), Sc(b), Sc(c))
        Holds(T) == \A a \in T : W(T, a) >= 0
        Found == {T \in tri : Holds(T)}
    IN IF Found = {} THEN None
       ELSE LET T == CHOOSE T \in Found : TRUE
                a == CHOOSE x \in T : TRUE
                b == CHOOSE x \in T \ {a} : TRUE
                c == CHOOSE x \in T \ {a, b} : TRUE
            IN Some([n |-> W(T, a) * a.value + W(T, b) * b.value + W(T, c) * c.value,
                     d |-> W(T, a) + W(T, b) + W(T, c)])

\* the handler's locals after the query returned rows
HeatGrid(rows, grid_size) ==
    LET lons == {r.lon : r \in rows}
        lats == {r.lat : r \in rows}
        min_lon == CHOOSE x \in lons : \A y \in lons : x <= y
        max_lon == CHOOSE x \in lons : \A y \in lons : y <= x
        min_lat == CHOOSE x \in lats : \A y \in lats : x <= y
        max_lat == CHOOSE x \in lats : \A y \in lats : y <= x
        den == AxisDen(grid_size)
        tri == Delaunay(rows)
        grid_lon == [j \in 0..(grid_size - 1) |->
                        Linspace(min_lon - pad, max_lon + pad, grid_size, j)]
        grid_lat == [i \in 0..(grid_size - 1) |->
                        Linspace(min_lat - pad, max_lat + pad, grid_size, i)]
        grid_z == [c \in (0..(grid_size - 1)) \X (0..(grid_size - 1)) |->
                      Interpolate(tri, [lon |-> grid_lon[c[2]], lat |-> grid_lat[c[1]]],
                                  den)]
        Cell(k) == <<(k - 1) \div grid_size, (k - 1) % grid_size>>
        all == [k \in 1..(grid_size * grid_size) |->
                   [lat |-> grid_lat[Cell(k)[1]], lon |-> grid_lon[Cell(k)[2]],
                    val |-> grid_z[Cell(k)]]]
        Kept(t) == t.val # None
    IN [den |-> den, grid_lon |-> grid_lon, grid_lat |-> grid_lat, grid_z |-> grid_z,
        heatmap_points |-> SelectSeq(all, Kept)]

NoGrid == [den |-> 1, grid_lon |-> <<>>, grid_lat |-> <<>>, grid_z |-> <<>>,
           heatmap_points |-> <<>>]

\* if len(rows) < 3; the variant asks for two
TooFewForALine(rows) == Cardinality(rows) < 2
TooFew(rows) == Cardinality(rows) < 3

\* heatmap(param, grid_size): 503 without a pool, 400 under three rows; a
\* failed connection and Qhull's error on a flat point set are unhandled (500)
heatmap(param, grid_size) ==
    LET rows == HeatRows(obs, param)
        Fail(code, rs) == [param |-> param, grid_size |-> grid_size, rows |-> rs,
                           status |-> code, grid |-> NoGrid, data |-> <<>>]
    IN IF ~DB_POOL THEN Fail(503, {})
       ELSE IF ~dbUp THEN Fail(500, {})
       ELSE IF TooFew(rows) THEN Fail(400, rows)
       ELSE IF Collinear(rows) THEN Fail(500, rows)
       ELSE LET g == HeatGrid(rows, grid_size)
            IN [param |-> param, grid_size |-> grid_size, rows |-> rows,
                status |-> 200, grid |-> g, data |-> g.heatmap_points]

Heatmap(param, grid_size) ==
    /\ heat' = heatmap(param, grid_size)
    /\ UNCHANGED <<apiVars, storeVars, run, riskVars, dbUp, auxVars>>

(***************************************************************************)
(* Initial states and specifications.                                      *)
(***************************************************************************)
\* nothing shown, fetched, written or scheduled yet
NoBadge == [aqi |-> 0, aqi_color |-> "", category |-> ""]
NoFetch == [pc |-> "idle", left |-> 0, attempts |-> [uid |-> 0, geo |-> 0], data |-> None]
NoTxn == [pc |-> "closed", outcome |-> "none"]
NoSched == [pc |-> "off", wait |-> 0, last |-> "none"]
InitAux ==
    /\ badge = NoBadge
    /\ fetch = NoFetch
    /\ txn = NoTxn
    /\ sched = NoSched

NoHeat == [param |-> "", grid_size |-> 0, rows |-> {}, status |-> 0,
           grid |-> NoGrid, data |-> <<>>]

InitRest ==
    /\ now = 0
    /\ cache = [k \in Keys |-> None]
    /\ lastWrite = [k \in Keys |-> None]
    /\ pending = [k \in Keys |-> None]
    /\ req = [r \in Reqs |-> IdleReq]
    /\ stations = [s \in Stations |-> [params |-> None, last_update |-> None]]
    /\ obs = {}
    /\ lastIns = [sent |-> 0, added |-> 0, clash |-> FALSE]
    /\ run = [pc |-> "idle", i |-> 0]
    /\ pm25_value = 0
    /\ risk = health_risk(0)
    /\ dbUp = TRUE
    /\ heat = NoHeat
    /\ InitAux

\* before the startup event
Init ==
    /\ started = FALSE
    /\ DB_POOL = FALSE
    /\ REDIS_CLIENT = FALSE
    /\ redisUp \in BOOLEAN
    /\ InitRest

TickSizes == {cache_ttl - 1, cache_ttl}
ApiIso == {Some([local |-> 1, off |-> 7])}
ApiIaqi == IaqiOver({"pm25"}, {10}) \ {<<>>}

Next ==
    \/ \E dbOk \in BOOLEAN, redisUrl \in BOOLEAN : Startup(dbOk, redisUrl)
    \/ RedisFail
    \/ RedisRecover
    \/ \E d \in TickSizes : Tick(d)
    \/ \E r \in Reqs, b \in ReqBoxes, force \in BOOLEAN : StartRequest(r, b, force)
    \/ \E r \in Reqs : CacheGet(r)
    \/ \E r \in Reqs : DbFetch(r)
    \/ \E r \in Reqs : CacheSet(r)
    \/ \E iso \in ApiIso, iaqi \in ApiIaqi : StoreCommit("s1", iso, iaqi)

Spec == Init /\ [][Next]_vars

\* the API server while the database comes and goes: create_pool succeeds at
\* startup exactly when the database is up, and the worker commits only then
OutageCommit(sid, iso, iaqi) == dbUp /\ StoreCommit(sid, iso, iaqi)

NextOutage ==
    \/ \E redisUrl \in BOOLEAN : Startup(dbUp, redisUrl)
    \/ DbFail
    \/ DbRecover
    \/ \E d \in TickSizes : Tick(d)
    \/ \E r \in Reqs, force \in BOOLEAN : StartRequest(r, NoBox, force)
    \/ \E r \in Reqs : CacheGet(r)
    \/ \E r \in Reqs : DbFetch(r)
    \/ \E r \in Reqs : CacheSet(r)
    \/ \E iso \in ApiIso, iaqi \in ApiIaqi : OutageCommit("s1", iso, iaqi)

SpecOutage == Init /\ [][NextOutage]_vars

\* the worker runs against a store the API server (pool up, no cache) reads
InitIngest ==
    /\ started = TRUE
    /\ DB_POOL = TRUE
    /\ REDIS_CLIENT = FALSE
    /\ redisUp = FALSE
    /\ InitRest

One == [p \in {"pm25"} |-> Obj(10, FALSE)]
Isos == {None} \cup {Some([local |-> t, off |-> 7]) : t \in 1..MaxTs}
               \cup {Some([local |-> 1, off |-> o]) : o \in Offsets}
Plain(iso, iaqi) ==
    [time |-> [iso |-> iso, s |-> FALSE], iaqi |-> iaqi, aqi |-> AqiAbsent,
     dominentpol |-> None, forecast |-> <<>>]

\* what the upstream feed answers for a station
Payloads(sid) ==
    IF sid = "s1"
    THEN {Plain(iso, iaqi) : iso \in Isos, iaqi \in IaqiOver({"pm25"}, Values)}
         \cup {[Plain(iso, One) EXCEPT !.aqi = a] :
                  iso \in Isos, a \in {AqiText, AqiNum(50)}}
         \cup {[Plain(iso, One) EXCEPT !.dominentpol = Some("pm25")] : iso \in Isos}
         \cup {[Plain(iso, One) EXCEPT !.forecast = [p \in {"pm10"} |-> 40],
                                       !.time.s = s] :
                  iso \in Isos, s \in BOOLEAN}
    ELSE {Plain(Some([local |-> 1, off |-> 7]), One)}

\* the feed's answers for a station: a failure, or data at either timestamp
FeedAnswers(sid) ==
    {Timeout, NotOk}
    \cup {Ok(Plain(Some([local |-> t, off |-> 7]), iaqi)) :
             t \in 1..MaxTs, iaqi \in IaqiOver({"pm25"}, Values)}

\* runs of the worker and of the older script over the station list
NextFetch ==
    \/ MainStart
    \/ \E sid \in Stations : \E uidAns, geoAns \in FeedAnswers(sid) :
          FetchStation(sid, uidAns, geoAns)
    \/ MainEnd
    \/ LegacyStart
    \/ \E sid \in Stations : \E uidAns, geoAns \in FeedAnswers(sid) :
          LegacyStation(sid, uidAns, geoAns)
    \/ LegacyEnd

SpecFetch == InitIngest /\ [][NextFetch]_vars

(***************************************************************************)
(* fetch_detail attempt by attempt: http is a requests.Session whose       *)
(* adapter carries Retry(total=3) for GET, so a request that times out is  *)
(* sent again, until the retries are used up and the exception reaches     *)
(* fetch_detail's except clause.                                           *)
(***************************************************************************)
retry_total == 3

\* data = fetch_detail(uid, lat, lon): the uid request is about to be sent
FetchCall ==
    /\ run.pc = "loop" /\ run.i <= Len(StationOrder)
    /\ fetch.pc = "idle"
    /\ fetch' = [pc |-> "uid", left |-> retry_total,
                 attempts |-> [uid |-> 0, geo |-> 0], data |-> None]
    /\ UNCHANGED <<apiVars, storeVars, run, riskVars, heatVars, badge, txn, sched>>

\* one request on the wire and its answer
HttpGet(ans) ==
    /\ fetch.pc \in {"uid", "geo"}
    /\ LET sent == [fetch EXCEPT !.attempts[fetch.pc] = @ + 1]
           GiveUp == IF fetch.pc = "uid"
                     THEN [sent EXCEPT !.pc = "geo", !.left = retry_total]
                     ELSE [sent EXCEPT !.pc = "returned", !.data = None]
       IN fetch' = IF ans.k = "ok"
                   THEN [sent EXCEPT !.pc = "returned", !.data = Some(ans.data)]
                   ELSE IF ans.k = "timeout" /\ fetch.left > 0
                   THEN [sent EXCEPT !.left = @ - 1]
                   ELSE GiveUp
    /\ UNCHANGED <<apiVars, storeVars, run, riskVars, heatVars, badge, txn, sched>>

\* fetch_detail has returned: the rest of the iteration
FetchReturn ==
    /\ fetch.pc = "returned"
    /\ StationBody(StationOrder[run.i], fetch.data)
    /\ fetch' = [fetch EXCEPT !.pc = "idle"]
    /\ UNCHANGED <<apiVars, riskVars, heatVars, badge, txn, sched>>

\* the answers to one request: a failure, or data of either hour
RetryAnswers ==
    {Timeout, NotOk} \cup {Ok(Plain(Some([local |-> t, off |-> 7]), One)) : t \in 1..MaxTs}

NextRetry ==
    \/ MainStart
    \/ FetchCall
    \/ \E ans \in RetryAnswers : HttpGet(ans)
    \/ FetchReturn
    \/ MainEnd

SpecRetry == InitIngest /\ [][NextRetry]_vars

NextIngest ==
    \/ MainStart
    \/ \E sid \in Stations :
          \E data \in {None} \cup {Some(d) : d \in Payloads(sid)} :
              MainStation(sid, data)
    \/ MainEnd

SpecIngest == InitIngest /\ [][NextIngest]_vars

NextRisk == \E v \in RiskInputs : HealthRisk(v)

SpecRisk == InitIngest /\ [][NextRisk]_vars

\* the heatmap over a store the worker has committed batches to
InitHeat ==
    /\ started = TRUE
    /\ DB_POOL = TRUE
    /\ REDIS_CLIENT = FALSE
    /\ redisUp = FALSE
    /\ now = 0
    /\ cache = [k \in Keys |-> None]
    /\ lastWrite = [k \in Keys |-> None]
    /\ pending = [k \in Keys |-> None]
    /\ req = [r \in Reqs |-> IdleReq]
    /\ stations = [s \in Stations \cup HeatStations |->
                      [params |-> None, last_update |-> None]]
    /\ obs = {}
    /\ lastIns = [sent |-> 0, added |-> 0, clash |-> FALSE]
    /\ run = [pc |-> "idle", i |-> 0]
    /\ pm25_value = 0
    /\ risk = health_risk(0)
    /\ dbUp = TRUE
    /\ heat = NoHeat
    /\ InitAux

\* what the feed has for the heatmap stations: the scenario's PM2.5 of 10,
\* 40 and 80 at A, B and C, a later reading at A, and a PM10 reading at B
HeatValue(sid) == CASE sid = "A" -> 10 [] sid = "B" -> 40 [] sid = "C" -> 80
                    [] sid = "D" -> 80
HeatFeed(sid) ==
    {<<Some([local |-> 1, off |-> 7]), [p \in {"pm25"} |-> Obj(HeatValue(sid), FALSE)]>>}
    \cup (IF sid = "A"
          THEN {<<Some([local |-> 2, off |-> 7]), [p \in {"pm25"} |-> Obj(40, FALSE)]>>}
          ELSE {})
    \cup (IF sid = "B"
          THEN {<<Some([local |-> 1, off |-> 7]), [p \in {"pm10"} |-> Obj(10, FALSE)]>>}
          ELSE {})

\* a committed worker transaction for a heatmap station
HeatCommit(sid, iso, iaqi) ==
    /\ insert_observations(sid, TsOfIso(iso), iaqi,
                           [aqi |-> AqiAbsent, dominentpol |-> None])
    /\ UNCHANGED <<apiVars, run, riskVars, heatVars, auxVars>>

NextHeat ==
    \/ \E sid \in HeatStations : \E c \in HeatFeed(sid) : HeatCommit(sid, c[1], c[2])
    \/ \E param \in {"pm25", "pm10"}, grid_size \in 1..MaxGrid : Heatmap(param, grid_size)

SpecHeat == InitHeat /\ [][NextHeat]_vars

(***************************************************************************)
(* Properties of the cache on /stations.geojson.                           *)
(***************************************************************************)
KeyOf(r) == CacheKey(req[r].bbox)
LeavesGet(r)   == req[r].pc = "get" /\ req'[r].pc # "get"
LeavesFetch(r) == req[r].pc = "fetch" /\ req'[r].pc # "fetch"
LeavesSet(r)   == req[r].pc = "set" /\ req'[r].pc # "set"
Hit(q)  == /\ q.pc = "done" /\ q.status = 200 /\ ~q.force
           /\ q.reads = 1 /\ q.computes = 0
Miss(q) == /\ q.pc = "done" /\ q.status = 200 /\ ~q.force
           /\ q.reads = 1 /\ q.computes = 1 /\ q.wrote

\* C1: with redis answering, a non-forced request whose key was SET less
\* than cache_ttl seconds ago returns the value of that SET without running
\* the store query; when no SET is that recent it runs the query once, and
\* its SET stores the result with expiry now + cache_ttl.
C1_Step(r) ==
    LET w == Recent(lastWrite[KeyOf(r)], now)
    IN /\ (LeavesGet(r) /\ redisUp) =>
             IF w # None
             THEN /\ req'[r].pc = "done" /\ req'[r].status = 200
                  /\ req'[r].body = Some(Loads(w[1].val))
                  /\ req'[r].computes = 0
             ELSE req'[r].pc = "fetch" /\ req'[r].computes = 0
       /\ LeavesFetch(r) => req'[r].computes = 1
       /\ (LeavesSet(r) /\ redisUp) =>
             /\ req'[r].pc = "done" /\ req'[r].status = 200 /\ req'[r].computes = 1
             /\ cache'[KeyOf(r)] = Some([val |-> Dumps(req'[r].body[1]),
                                         exp |-> now + cache_ttl])

C1_CacheRoundTrip == [][\A r \in Reqs : C1_Step(r)]_vars

\* a hit in one slot, and in the other a request that found the key expired
\* or missing, ran the query and stored the result with a fresh expiry
C1_Witness ==
    \E r, q \in Reqs :
        /\ Hit(req[r])
        /\ Miss(req[q])
        /\ now >= cache_ttl
        /\ cache[KeyOf(q)] = Some([val |-> Dumps(req[q].body[1]),
                                   exp |-> now + cache_ttl])

\* C2: a request never fails because of the cache: with the pool up, every
\* finished request has status 200.
C2_CacheNeverFails ==
    \A r \in Reqs : (req[r].pc = "done" /\ DB_POOL) => req[r].status = 200

\* C3, the part about the forced request itself: it never reads the cache,
\* runs the store query, and with redis answering stores its result under
\* its key with expiry now + cache_ttl.
C3_Forced(r) ==
    /\ req'[r].force => req'[r].reads = 0
    /\ (req'[r].force /\ req'[r].pc = "done" /\ req'[r].status = 200) =>
          /\ req'[r].computes = 1
          /\ REDIS_CLIENT => req'[r].wrote
    /\ (LeavesSet(r) /\ req[r].force /\ redisUp) =>
          /\ req'[r].wrote
          /\ cache'[KeyOf(r)] = Some([val |-> Dumps(req'[r].body[1]),
                                      exp |-> now + cache_ttl])

\* the first non-forced request to start after a forced SET, reading the
\* cache within cache_ttl of that SET
NextAfterForced(r) ==
    /\ LeavesGet(r) /\ redisUp /\ req[r].next
    /\ Recent(pending[KeyOf(r)], now) # None

\* C3: a forced request never reads the cache, runs the store query and
\* writes its result back under its key, and the next non-forced request
\* within the TTL is served the forced request's value.
C3_Original ==
    [][\A r \in Reqs :
          /\ C3_Forced(r)
          /\ NextAfterForced(r) =>
                /\ req'[r].pc = "done" /\ req'[r].status = 200
                /\ req'[r].body = Some(Loads(pending[KeyOf(r)][1].val))]_vars

\* What the code does guarantee of that next request: it is served from the
\* cache the value of the latest SET of its key, which is the forced
\* request's value unless another request has SET the key after it.
C3_ReadAroundWrite ==
    [][\A r \in Reqs :
          /\ C3_Forced(r)
          /\ NextAfterForced(r) =>
                /\ req'[r].pc = "done" /\ req'[r].status = 200
                /\ req'[r].computes = 0
                /\ req'[r].body = Some(Loads(lastWrite[KeyOf(r)][1].val))
                /\ lastWrite[KeyOf(r)][1].forced =>
                      lastWrite[KeyOf(r)][1].val = pending[KeyOf(r)][1].val]_vars

\* a forced request has stored its result and the next non-forced request
\* has been served it from the cache
C3_Witness ==
    \E r, q \in Reqs :
        /\ req[r].pc = "done" /\ req[r].force /\ req[r].status = 200
        /\ req[r].wrote /\ req[r].computes = 1
        /\ Hit(req[q]) /\ req[q].next
        /\ req[q].body = req[r].body
        /\ stations["s1"].params # None

(***************************************************************************)
(* Properties of the observation log and of /latest.                       *)
(***************************************************************************)
\* the log after one iteration of main()'s loop that fetched payload d
Ingested(o, sid, d) ==
    IF Uid(sid) = None \/ DOMAIN d.iaqi = {} THEN o
    ELSE InsertAll(o, sid, TsOfIso(d.time.iso),
                   BatchItems(enrich_with_forecast(d, d.iaqi), d))

\* C4: the observations table holds at most one row per
\* (station_id, ts, param), whatever runs have been ingested.
C4_Unique ==
    \A r1, r2 \in obs :
        (r1.station_id = r2.station_id /\ r1.ts = r2.ts /\ r1.param = r2.param)
            => r1 = r2

\* C5: for every station, log and payload, the latest-per-parameter result
\* after ingesting the payload twice equals the result after ingesting it once.
C5_LatestIdempotent ==
    \A sid \in Stations : \A d \in Payloads(sid) :
        LatestFor(Ingested(Ingested(obs, sid, d), sid, d), sid)
            = LatestFor(Ingested(obs, sid, d), sid)

\* a run has just re-ingested a timestamped payload already in the log, and
\* /latest answers for that station
C5_Witness ==
    /\ lastIns.sent > 0 /\ lastIns.added = 0 /\ ~lastIns.clash
    /\ \E sid \in Stations : \E d \in Payloads(sid) :
          /\ d.time.iso # None /\ DOMAIN d.iaqi # {}
          /\ Ingested(obs, sid, d) = obs
          /\ stations[sid].last_update = TsOfIso(d.time.iso)
          /\ latest_for_station(sid).status = 200

MaxOf(S) == CHOOSE x \in S : \A y \in S : y <= x

\* C6: for every station with observations, /latest has exactly one entry
\* per parameter observed for the station, carrying the value and timestamp
\* of an observation of that parameter with the maximal timestamp.
C6_LatestExact ==
    \A sid \in Stations :
        LET rows == {r \in obs : r.station_id = sid}
            res == latest_for_station(sid)
        IN rows # {} =>
             /\ res.status = 200
             /\ DOMAIN res.latest = {r.param : r \in rows}
             /\ \A p \in DOMAIN res.latest :
                   \E r \in rows :
                      /\ r.param = p
                      /\ r.ts[1] = MaxOf({q.ts[1] : q \in {x \in rows : x.param = p}})
                      /\ res.latest[p] = [value |-> r.value, ts |-> IsoFormat(r.ts)]

\* C7: no ingestion step changes or removes a stored observation row.
C7_AppendOnly == [][\A r \in obs : r \in obs']_vars

\* a run has just re-ingested an existing (station_id, ts, param) with a
\* different value, and the log still holds the first value only
C7_Witness ==
    /\ lastIns.clash /\ lastIns.added = 0
    /\ \E r \in obs : /\ r.param = "pm25" /\ r.ts # None
                      /\ \A q \in obs : (q.station_id = r.station_id /\ q.ts = r.ts
                                           /\ q.param = r.param) => q = r

(***************************************************************************)
(* Properties of the PM2.5 categorization.                                 *)
(***************************************************************************)
BpSeq == <<Bp12, Bp35, Bp55, Bp150, Bp250>>
TierSeq == <<"Good", "Moderate", "Unhealthy for Sensitive Groups", "Unhealthy",
             "Very Unhealthy", "Hazardous">>
Rank(level) == CHOOSE i \in 1..Len(TierSeq) : TierSeq[i] = level

\* C8: a value equal to a breakpoint gets the tier below it, and a value
\* above it, up to the next breakpoint, the tier above it (12.0 Good, 12.01
\* Moderate, 35.4 Moderate, 35.5 Unhealthy for Sensitive Groups).
C8_InclusiveUpperBounds ==
    /\ risk.pm25 = pm25_value
    /\ \A i \in 1..Len(BpSeq) :
          /\ pm25_value = BpSeq[i] => risk.level = TierSeq[i]
          /\ (/\ pm25_value > BpSeq[i]
              /\ i < Len(BpSeq) => pm25_value <= BpSeq[i + 1])
                => risk.level = TierSeq[i + 1]

\* 12.01 has been categorized, as Moderate
C8_Witness == pm25_value = Bp12 + 1 /\ risk.level = "Moderate"

\* C9: no value below the categorized one gets a higher tier, and a value
\* above 250.4 is Hazardous.
C9_Monotonic ==
    /\ \A v \in RiskInputs :
          v <= pm25_value => Rank(health_risk(v).level) <= Rank(risk.level)
    /\ pm25_value > Bp250 => risk.level = "Hazardous"

\* a value above the last breakpoint has been categorized
C9_Witness == pm25_value > Bp250 /\ risk.level = "Hazardous"

(***************************************************************************)
(* The dashboard's reading of a station feature.                           *)
(***************************************************************************)
\* dict.get(key, default)
DictGet(d, key, default) == IF key \in DOMAIN d THEN d[key] ELSE default

simplify_category(cat) ==
    IF cat \in {"Unhealthy for Sensitive Groups", "Unhealthy"} THEN "Unhealthy"
    ELSE IF cat \in {"Very Unhealthy", "Hazardous"} THEN "Hazardous"
    ELSE cat

get_aqi_category(aqi_value) ==
    IF aqi_value <= 50 THEN "Good"
    ELSE IF aqi_value <= 100 THEN "Moderate"
    ELSE IF aqi_value <= 150 THEN "Unhealthy"
    ELSE IF aqi_value <= 200 THEN "Unhealthy"
    ELSE IF aqi_value <= 300 THEN "Hazardous"
    ELSE "Hazardous"

\* update_dashboard_data: the customdata entry of one feature
Marker(f) ==
    LET p == f.properties
    IN [station_id |-> p.station_id,
        aqi |-> DictGet(p, "aqi", 0),
        cat |-> simplify_category(DictGet(p, "category", "Unknown"))]

\* C10: the category of a station feature with a PM2.5 reading is the AQI
\* category when the feature has an AQI above 0, the PM2.5 tier otherwise.
C10_CategoryDerived ==
    \A r \in Reqs :
        (req[r].pc = "done" /\ req[r].status = 200) =>
            \A f \in req[r].body[1].features :
                LET params == f.properties.params
                    aqi == DictGet(f.properties, "aqi", 0)
                IN (params # None /\ "pm25" \in DOMAIN params[1]) =>
                      Marker(f).cat =
                          IF aqi > 0 THEN get_aqi_category(aqi)
                          ELSE simplify_category(
                                   health_risk(100 * params[1]["pm25"].v).level)

(***************************************************************************)
(* The dashboard's side panel: update_side_panel's latest pollutants.      *)
(***************************************************************************)
PanelParams == {"pm25", "pm10", "o3", "no2"}

\* pm25_val, pm10_val, o3_val, no2_val = 0, 0, 0, 0; then, on a 200 from
\* /latest, latest.get(p, {}).get("value", 0) for each of them
update_side_panel(sid) ==
    LET resp == latest_for_station(sid)
    IN [p \in PanelParams |->
           IF resp.status = 200
           THEN DictGet(DictGet(resp.latest, p, <<>>), "value", 0)
           ELSE 0]

\* C11: for a station with no observation of a parameter, the value the side
\* panel reports for that parameter is an absent marker, never a number.
C11_NoFabricatedValue ==
    \A sid \in Stations : \A p \in PanelParams :
        ({r \in obs : r.station_id = sid /\ r.param = p} = {})
            => update_side_panel(sid)[p] \notin Int

HeatStep == heat' # heat

\* the stations with at least one observation of a parameter
Observed(param) == {r.station_id : r \in {x \in obs : x.param = param}}

\* C12: serving a heatmap while fewer than 3 stations have an observation of
\* the parameter ends 400 with no grid, however many observations they have.
C12_TooFewStations ==
    [][(HeatStep /\ Cardinality(Observed(heat'.param)) < 3)
          => (heat'.status = 400 /\ heat'.data = <<>>)]_vars

\* the answer to a request over the present store: three observations of
\* the parameter held by two stations, refused
C12_Witness ==
    /\ heat.status = 400
    /\ heat = heatmap(heat.param, heat.grid_size)
    /\ Cardinality({r \in obs : r.param = heat.param}) = 3
    /\ Cardinality(Observed(heat.param)) = 2

\* the centre of cell (i, j) of a served grid, over the denominator h.grid.den
Centre(h, i, j) == [lon |-> h.grid.grid_lon[j], lat |-> h.grid.grid_lat[i]]
Cells(h) == (0..(h.grid_size - 1)) \X (0..(h.grid_size - 1))

\* p, over denominator den, lies in the triangle a, b, c or on its edges
InTriangle(p, den, a, b, c) ==
    LET Sc(x) == [lon |-> x.lon * den, lat |-> x.lat * den]
        d1 == Cross(p, Sc(a), Sc(b))
        d2 == Cross(p, Sc(b), Sc(c))
        d3 == Cross(p, Sc(c), Sc(a))
    IN ~((d1 < 0 \/ d2 < 0 \/ d3 < 0) /\ (d1 > 0 \/ d2 > 0 \/ d3 > 0))

\* p lies in the convex hull of the samples: in the triangle of some three
InHull(p, den, S) == \E a, b, c \in S : ~Collinear({a, b, c}) /\ InTriangle(p, den, a, b, c)

ThreeSamples(h) == h.status # 0 /\ Cardinality(h.rows) = 3 /\ ~Collinear(h.rows)

MinOf(S) == CHOOSE x \in S : \A y \in S : x <= y

RowMajor(h) ==
    \A k \in 1..(Len(h.data) - 1) :
        /\ h.data[k].lat <= h.data[k + 1].lat
        /\ h.data[k].lat = h.data[k + 1].lat => h.data[k].lon < h.data[k + 1].lon
AxisOk(axis, lo, hi, h) ==
    /\ Cardinality({axis[i] : i \in DOMAIN axis}) = h.grid_size
    /\ \A i \in DOMAIN axis : lo * h.grid.den <= axis[i] /\ axis[i] <= hi * h.grid.den
    /\ \E i \in DOMAIN axis : axis[i] = lo * h.grid.den
    /\ \E i \in DOMAIN axis : axis[i] = hi * h.grid.den
OnAxes(h) ==
    \A k \in 1..Len(h.data) :
        /\ h.data[k].lat \in {h.grid.grid_lat[i] : i \in DOMAIN h.grid.grid_lat}
        /\ h.data[k].lon \in {h.grid.grid_lon[j] : j \in DOMAIN h.grid.grid_lon}
AxesOk(h) ==
    /\ AxisOk(h.grid.grid_lon, MinOf({r.lon : r \in h.rows}) - pad,
              MaxOf({r.lon : r \in h.rows}) + pad, h)
    /\ AxisOk(h.grid.grid_lat, MinOf({r.lat : r \in h.rows}) - pad,
              MaxOf({r.lat : r \in h.rows}) + pad, h)

\* C15 as stated: triples are row-major with latitude non-decreasing and
\* longitude increasing within a row, and each axis has grid_size values from
\* minimum - padding to maximum + padding, both ends included.
C15_Original ==
    heat.status = 200 => (RowMajor(heat) /\ OnAxes(heat) /\ AxesOk(heat))

\* C15: the same for grid_size of 2 or more; for grid_size 1 each axis is
\* the single value minimum - padding.
C15_RowMajor ==
    heat.status = 200 =>
        /\ RowMajor(heat) /\ OnAxes(heat)
        /\ heat.grid_size >= 2 => AxesOk(heat)
        /\ heat.grid_size = 1 =>
              /\ heat.grid.grid_lon[0] = MinOf({r.lon : r \in heat.rows}) - pad
              /\ heat.grid.grid_lat[0] = MinOf({r.lat : r \in heat.rows}) - pad

\* a served grid with triples in two rows, two of them in one row
C15_Witness ==
    /\ heat.status = 200
    /\ \E k, l, m \in 1..Len(heat.data) :
          /\ k < l /\ heat.data[k].lat = heat.data[l].lat
          /\ heat.data[m].lat # heat.data[k].lat

\* C17: for the samples (106.8, -6.2, 10), (107.0, -6.0, 40), (106.5, -6.5,
\* 80) and grid size 5 the request succeeds with a 5 by 5 grid whose interior
\* cells carry values between 10 and 80.
C17_Scenario ==
    (/\ heat.status # 0 /\ heat.grid_size = 5
     /\ heat.rows = {[station_id |-> sid, lon |-> Lon(sid), lat |-> Lat(sid),
                      value |-> HeatValue(sid)] : sid \in {"A", "B", "C"}})
        => /\ heat.status = 200
           /\ Cardinality(DOMAIN heat.grid.grid_z) = 5 * 5
           /\ \A c \in (1..3) \X (1..3) :
                 /\ heat.grid.grid_z[c] # None
                 /\ 10 * heat.grid.grid_z[c][1].d <= heat.grid.grid_z[c][1].n
                 /\ heat.grid.grid_z[c][1].n <= 80 * heat.grid.grid_z[c][1].d

\* C18: while the store is unavailable (no pool, or the database refuses
\* connections) /latest, /timeseries and /heatmap answer 503, and every
\* /stations.geojson request that completes answers 503 without a body.
C18_Unavailable ==
    [][(~DB_POOL \/ ~dbUp) =>
          /\ \A sid \in Stations : latest_for_station(sid).status = 503
          /\ \A sid \in Stations : timeseries(sid, "pm25").status = 503
          /\ \A g \in 1..MaxGrid : heatmap("pm25", g).status = 503
          /\ \A r \in Reqs :
                (req[r].pc # "done" /\ req'[r].pc = "done")
                   => (req'[r].status = 503 /\ req'[r].body = None)]_vars

\* C19: in an ingestion run every iteration of the station loop moves on to
\* the next station; a failed or timed-out fetch never ends the run.
C19_FetchFailureSkips ==
    [][(run.pc \in {"loop", "legacy"} /\ run.i <= Len(StationOrder)) =>
          \/ run'.pc = run.pc /\ run'.i = run.i + 1
          \/ run'.pc = "raised" /\ run'.error # "Timeout"]_vars

(***************************************************************************)
(* The colour logic of src/tests/test_backend.py (the copies the test      *)
(* falls back to when main.py does not export them); hundredths of ug/m3.  *)
(***************************************************************************)
get_aqi_color(pm25) ==
    IF pm25 = None THEN "#7f8c8d"
    ELSE IF pm25[1] <= Bp12 THEN "#00e400"
    ELSE IF pm25[1] <= Bp35 THEN "#ffff00"
    ELSE IF pm25[1] <= Bp55 THEN "#ff7e00"
    ELSE IF pm25[1] <= Bp150 THEN "#ff0000"
    ELSE IF pm25[1] <= Bp250 THEN "#8f3f97"
    ELSE "#7e0023"

\* the reading the copy of station_row_to_feature colours: params["pm25"],
\* through .get("v") for the object form the worker stores
Pm25Of(params) ==
    IF params # None /\ "pm25" \in DOMAIN params[1]
    THEN Some(100 * params[1]["pm25"].v)
    ELSE None

\* C20: every station feature served carries a color property, which is
\* get_aqi_color of the PM2.5 reading in its params, grey without a reading.
C20_ColorProperty ==
    \A r \in Reqs :
        (req[r].pc = "done" /\ req[r].status = 200) =>
            \A f \in req[r].body[1].features :
                /\ "color" \in DOMAIN f.properties
                /\ f.properties.color = get_aqi_color(Pm25Of(f.properties.params))

(***************************************************************************)
(* The dashboard's table: update_tabs colours the AQI badge of a row by    *)
(* thresholds, and the mock stations get their category from              *)
(* get_aqi_category.                                                       *)
(***************************************************************************)
MaxAqi == 320       \* AQI inputs 0..MaxAqi

\* variants of the thresholds: inclusive comparisons
AqiBadgeInclusive(aqi) ==
    IF aqi >= 200 THEN "Hazardous"
    ELSE IF aqi >= 100 THEN "Unhealthy"
    ELSE IF aqi >= 50 THEN "Moderate"
    ELSE "Good"

\* aqi_color = COLORS["Good"]; if aqi > 200: ... elif aqi > 100: ... elif aqi > 50: ...
AqiBadge(aqi) ==
    IF aqi > 200 THEN "Hazardous"
    ELSE IF aqi > 100 THEN "Unhealthy"
    ELSE IF aqi > 50 THEN "Moderate"
    ELSE "Good"

\* one row: the badge of update_tabs and the category of get_aqi_category
TableRow(aqi) ==
    /\ badge' = [aqi |-> aqi, aqi_color |-> AqiBadge(aqi),
                 category |-> get_aqi_category(aqi)]
    /\ UNCHANGED <<apiVars, storeVars, run, riskVars, heatVars, fetch, txn, sched>>

NextBadge == \E aqi \in 0..MaxAqi : TableRow(aqi)

SpecBadge == InitIngest /\ [][NextBadge]_vars

\* the six-tier AQI classification over 50, 100, 150, 200, 300
six_tier(v) ==
    IF v <= 50 THEN "Good"
    ELSE IF v <= 100 THEN "Moderate"
    ELSE IF v <= 150 THEN "Unhealthy for Sensitive Groups"
    ELSE IF v <= 200 THEN "Unhealthy"
    ELSE IF v <= 300 THEN "Very Unhealthy"
    ELSE "Hazardous"

\* C21: the category of a row is the six-tier class of its AQI with tiers
\* 3+4 merged into Unhealthy and 5+6 into Hazardous, and the badge
\* thresholds select the same tier.
C21_SimplifiedTiers ==
    badge # NoBadge =>
        /\ badge.category = simplify_category(six_tier(badge.aqi))
        /\ badge.aqi_color = badge.category

\* rows shown in the merged tiers: 3 and 4, 5 and 6
C21_Witness ==
    /\ badge # NoBadge
    /\ six_tier(badge.aqi) = "Very Unhealthy"
    /\ badge.aqi_color = "Hazardous"

(***************************************************************************)
(* The API server while no ingestion commits: the store does not change.   *)
(***************************************************************************)
NextSame ==
    \/ \E dbOk \in BOOLEAN, redisUrl \in BOOLEAN : Startup(dbOk, redisUrl)
    \/ RedisFail
    \/ RedisRecover
    \/ \E d \in TickSizes : Tick(d)
    \/ \E r \in Reqs, b \in SameBoxes, force \in BOOLEAN : StartRequest(r, b, force)
    \/ \E r \in Reqs : CacheGet(r)
    \/ \E r \in Reqs : DbFetch(r)
    \/ \E r \in Reqs : CacheSet(r)

SpecSame == Init /\ [][NextSame]_vars

Answered(q) == q.pc = "done" /\ q.status = 200

\* C22: while the store does not change, a request that answers has run
\* the store query at most once, answers the same feature collection as
\* every other answered request of its key, and leaves the cache (when there
\* is one) holding exactly that collection under the key.
C22_Converges ==
    [][\A r \in Reqs :
          (req[r].pc # "done" /\ Answered(req'[r])) =>
             LET k == CacheKey(req'[r].bbox)
             IN /\ req'[r].computes <= 1
                /\ req'[r].body # None
                /\ \A q \in Reqs :
                      (Answered(req'[q]) /\ CacheKey(req'[q].bbox) = k)
                         => req'[q].body = req'[r].body
                /\ REDIS_CLIENT =>
                      /\ cache'[k] # None /\ now' < cache'[k][1].exp
                      /\ Loads(cache'[k][1].val) = req'[r].body[1]]_vars

\* two requests of one key that both missed the cache, both ran the query
\* and both stored their result, and the cache holds that collection
C22_Witness ==
    \E r, q \in Reqs :
        /\ r # q /\ KeyOf(r) = KeyOf(q)
        /\ Miss(req[r]) /\ Miss(req[q])
        /\ req[r].body = req[q].body
        /\ Live(cache[KeyOf(r)])
        /\ Loads(cache[KeyOf(r)][1].val) = req[r].body[1]

(***************************************************************************)
(* The API server with redis answering, asked without force_refresh for    *)
(* every bounding box while ingestion commits.                             *)
(***************************************************************************)
NextKeys ==
    \/ Startup(TRUE, TRUE)
    \/ \E r \in Reqs, b \in BBoxes : StartRequest(r, b, FALSE)
    \/ \E r \in Reqs : CacheGet(r)
    \/ \E r \in Reqs : DbFetch(r)
    \/ \E r \in Reqs : CacheSet(r)
    \/ \E iso \in ApiIso, iaqi \in ApiIaqi : StoreCommit("s1", iso, iaqi)

InitKeys == Init /\ redisUp

SpecKeys == InitKeys /\ [][NextKeys]_vars

StationsIn(body) == {f.properties.station_id : f \in body.features}

\* C23: two requests have the same cache key exactly when their four
\* bounding-box parameters are equal, and an answered request, from the
\* cache or not, carries the stations of its own bounding box.
C23_KeysSeparate ==
    /\ \A r, q \in Reqs :
          (req[r].bbox = req[q].bbox) <=> (KeyOf(r) = KeyOf(q))
    /\ \A r \in Reqs :
          Answered(req[r]) => StationsIn(req[r].body[1]) = StationRows(req[r].bbox)

\* cache hits in both slots for boxes differing in one parameter, with
\* different collections
C23_Witness ==
    \E r, q \in Reqs :
        /\ Hit(req[r]) /\ Hit(req[q])
        /\ req[r].bbox = Box1 /\ req[q].bbox = BoxPartial
        /\ StationsIn(req[r].body[1]) # StationsIn(req[q].body[1])

\* C24: a station's params names every pollutant of which an observation of
\* that station is stored.
C24_ParamsCoverStored ==
    \A r \in obs :
        r.param \in IaqiParams =>
            /\ stations[r.station_id].params # None
            /\ r.param \in DOMAIN stations[r.station_id].params[1]

\* C25: a batch never moves a station's last_update back and never resets
\* it to null.
C25_LastUpdateForward ==
    [][\A sid \in Stations :
          stations[sid].last_update # None =>
             /\ stations'[sid].last_update # None
             /\ stations'[sid].last_update[1] >= stations[sid].last_update[1]]_vars

\* C26: within a run no upstream request is sent more than once for a
\* station: a request that timed out is not sent again.
C26_NoSynchronousRetry ==
    fetch.attempts.uid <= 1 /\ fetch.attempts.geo <= 1

(***************************************************************************)
(* scheduler.py.  The job is scheduled every hour, init_db.py and one      *)
(* ingestion run immediately; then the loop runs what is pending and       *)
(* sleeps a minute.  wait is the minutes left until the job's next_run.    *)
(* subprocess.run(..., check=True) ends in one of three ways: exit status  *)
(* 0, a non-zero exit status (CalledProcessError), or the child cannot be  *)
(* started (OSError).                                                      *)
(***************************************************************************)
every_minutes == 60
Outcomes == {"ok", "nonzero", "oserror"}

\* lines 22-27: schedule the job, run init_db.py, call run_ingestion()
SchedStart(init) ==
    /\ sched.pc = "off"
    /\ sched' = IF init = "ok"
                THEN [pc |-> "running", wait |-> every_minutes, last |-> "none"]
                ELSE [pc |-> "dead", wait |-> every_minutes, last |-> "none"]
    /\ UNCHANGED <<apiVars, storeVars, run, riskVars, heatVars, badge, fetch, txn>>

\* a minute passes while the ingestion script runs
RunMinute ==
    /\ sched.pc = "running"
    /\ sched.wait > 0
    /\ sched' = [sched EXCEPT !.wait = @ - 1]
    /\ UNCHANGED <<apiVars, storeVars, run, riskVars, heatVars, badge, fetch, txn>>

\* run_ingestion() returns or raises; a job run by run_pending is then
\* scheduled an hour ahead
RunIngestionEnd(outcome) ==
    /\ sched.pc = "running"
    /\ sched' = IF outcome = "oserror"
                THEN [sched EXCEPT !.pc = "dead", !.last = "failed"]
                ELSE [pc |-> "loop",
                      wait |-> IF sched.last = "none" THEN sched.wait ELSE every_minutes,
                      last |-> IF outcome = "ok" THEN "ok" ELSE "failed"]
    /\ UNCHANGED <<apiVars, storeVars, run, riskVars, heatVars, badge, fetch, txn>>

\* schedule.run_pending() with the job due
RunPending ==
    /\ sched.pc = "loop"
    /\ sched.wait = 0
    /\ sched' = [sched EXCEPT !.pc = "running"]
    /\ UNCHANGED <<apiVars, storeVars, run, riskVars, heatVars, badge, fetch, txn>>

\* schedule.run_pending() with nothing due; time.sleep(60)
Sleep ==
    /\ sched.pc = "loop"
    /\ sched.wait > 0
    /\ sched' = [sched EXCEPT !.wait = @ - 1]
    /\ UNCHANGED <<apiVars, storeVars, run, riskVars, heatVars, badge, fetch, txn>>

NextSched ==
    \/ \E init \in {"ok", "nonzero"} : SchedStart(init)
    \/ RunMinute
    \/ \E outcome \in Outcomes : RunIngestionEnd(outcome)
    \/ RunPending
    \/ Sleep

SpecSched == InitIngest /\ [][NextSched]_vars

\* C27: whatever way an ingestion run fails, the scheduler goes on to its
\* loop, from where the next run starts at the next hourly tick.
C27_FailedRunGoesOn ==
    [][sched.pc = "running" => sched'.pc \in {"running", "loop"}]_vars

(***************************************************************************)
(* insert_observations statement by statement.  psycopg2 opens a           *)
(* transaction at the first execute; the statements see their own writes   *)
(* (view), other connections see nothing until conn.commit(), and a        *)
(* connection dropped by an exception rolls the transaction back.  Runs do *)
(* not overlap, so the transaction begins from the committed store.        *)
(***************************************************************************)
TxnPayloads ==
    {[Plain(Some([local |-> t, off |-> 7]), One)
         EXCEPT !.aqi = a, !.dominentpol = dp] :
        t \in 1..MaxTs, a \in {AqiAbsent, AqiText, AqiNum(50)},
        dp \in {None, Some("pm25")}}

\* conn = connect(); cur = conn.cursor(); the statements to come
TxBegin(sid, data) ==
    /\ txn.pc = "closed"
    /\ LET iaqi == enrich_with_forecast(data, data.iaqi)
       IN txn' = [pc |-> "open", outcome |-> "none", station_id |-> sid,
                  ts |-> TsOfIso(data.time.iso), iaqi |-> iaqi,
                  items |-> BatchItems(iaqi, data), todo |-> BatchItems(iaqi, data),
                  view |-> obs,
                  before |-> [obs |-> obs, stations |-> stations]]
    /\ UNCHANGED <<apiVars, storeVars, run, riskVars, heatVars, badge, fetch, sched>>

\* a variant with autocommit: the row is visible at once
TxInsertAutocommit ==
    /\ txn.pc = "open"
    /\ txn.todo # <<>>
    /\ LET it == Head(txn.todo)
           o2 == InsertRow(txn.view, txn.station_id, txn.ts, it.param, it.value, it.unit)
       IN /\ txn' = [txn EXCEPT !.todo = Tail(@), !.view = o2]
          /\ obs' = o2
    /\ UNCHANGED <<stations, lastIns>>
    /\ UNCHANGED <<apiVars, run, riskVars, heatVars, badge, fetch, sched>>

\* cur.execute("INSERT INTO observations ... ON CONFLICT ... DO NOTHING")
TxInsert ==
    /\ txn.pc = "open"
    /\ txn.todo # <<>>
    /\ LET it == Head(txn.todo)
       IN txn' = [txn EXCEPT
                     !.todo = Tail(@),
                     !.view = InsertRow(@, txn.station_id, txn.ts,
                                        it.param, it.value, it.unit)]
    /\ UNCHANGED <<apiVars, storeVars, run, riskVars, heatVars, badge, fetch, sched>>

\* cur.execute("UPDATE stations SET params = ..., last_update = ...")
TxUpdate ==
    /\ txn.pc = "open"
    /\ txn.todo = <<>>
    /\ txn' = [txn EXCEPT !.pc = "updated"]
    /\ UNCHANGED <<apiVars, storeVars, run, riskVars, heatVars, badge, fetch, sched>>

\* conn.commit()
TxCommit ==
    /\ txn.pc = "updated"
    /\ Cardinality(txn.view) <= MaxRows
    /\ obs' = txn.view
    /\ stations' = [stations EXCEPT ![txn.station_id] =
                       [params |-> Some(txn.iaqi), last_update |-> txn.ts]]
    /\ lastIns' = [sent |-> Len(txn.items),
                   added |-> Cardinality(txn.view) - Cardinality(obs),
                   clash |-> FALSE]
    /\ txn' = [txn EXCEPT !.pc = "closed", !.outcome = "committed"]
    /\ UNCHANGED <<apiVars, run, riskVars, heatVars, badge, fetch, sched>>

\* an exception in a statement or in commit leaves insert_observations:
\* nothing was committed
TxFail ==
    /\ txn.pc \in {"open", "updated"}
    /\ txn' = [txn EXCEPT !.pc = "closed", !.outcome = "failed"]
    /\ UNCHANGED <<apiVars, storeVars, run, riskVars, heatVars, badge, fetch, sched>>

NextTxn ==
    \/ \E data \in TxnPayloads : TxBegin("s1", data)
    \/ TxInsert
    \/ TxUpdate
    \/ TxCommit
    \/ TxFail

SpecTxn == InitIngest /\ [][NextTxn]_vars

Stored(o, sid, ts, param) ==
    \E r \in o : r.station_id = sid /\ r.ts = ts /\ r.param = param

\* C28: a reader of the committed store sees a batch whole or not at all:
\* while a batch is being written, and after one that failed, the store is
\* what it was before; after a commit every row of the batch and the
\* station's params and last_update are there; and at any time the
\* pollutants named by a station's params have their rows at last_update.
C28_AtomicBatch ==
    /\ (txn.pc \in {"open", "updated"} \/ txn.outcome = "failed") =>
          (obs = txn.before.obs /\ stations = txn.before.stations)
    /\ txn.outcome = "committed" =>
          /\ \A k \in 1..Len(txn.items) :
                Stored(obs, txn.station_id, txn.ts, txn.items[k].param)
          /\ stations[txn.station_id] =
                [params |-> Some(txn.iaqi), last_update |-> txn.ts]
    /\ \A sid \in Stations :
          stations[sid].params # None =>
             \A p \in DOMAIN stations[sid].params[1] :
                Stored(obs, sid, stations[sid].last_update, p)

\* a batch with pollutant, AQI and dominant-pollutant rows failed after its
\* last INSERT and left the store, which held an earlier batch, untouched
C28_Witness ==
    /\ txn.outcome = "failed" /\ txn.pc = "closed"
    /\ txn.todo = <<>> /\ Len(txn.items) = 3
    /\ txn.view # obs
    /\ obs # {}

\* C29: a cache entry that holds the collection of the store as it is now
\* is never replaced by a different collection, which could only come from
\* an older snapshot of the store.
C29_NoStaleOverwrite ==
    [][\A b \in BBoxes :
          LET k == CacheKey(b)
          IN (Live(cache[k]) /\ cache[k][1].val = Dumps(GeoJson(b))
              /\ cache'[k] # None)
                => cache'[k][1].val = cache[k][1].val]_vars

\* C30: every stored observation has a timestamp, and a station that has
\* been updated has a last_update.
C30_TimestampPresent ==
    /\ \A r \in obs : r.ts # None
    /\ \A sid \in Stations :
          stations[sid].params # None => stations[sid].last_update # None

====
